---- MODULE Spec2Model ----
(***************************************************************************)
(* Model of scaffolder.py: the identifier sanitizer, the type resolver,    *)
(* the table model builder (CSVProcessor.process_tables), the DDL          *)
(* generator (SQLGenerator) and the caller that sequences them             *)
(* (ProjectBuilder._generate_project_files).                               *)
(*                                                                         *)
(* Text is modelled character by character: a Python str is a sequence of  *)
(* one-character strings, so that strip(), lower(), re.sub(), slicing and  *)
(* f-string concatenation are computed as the code computes them.          *)
(***************************************************************************)
EXTENDS Integers, Sequences, FiniteSets, TLC

\* ------------------------------------------------------------------ bounds
\* Longest run of filler the sanitizer's inputs are padded with.
MaxPad == 129
\* Number of data rows read from the dictionary file.
MaxRows == 3

\* ------------------------------------------------------------- characters
LowerLetters ==
    << "a","b","c","d","e","f","g","h","i","j","k","l","m",
       "n","o","p","q","r","s","t","u","v","w","x","y","z" >>

UpperLetters ==
    << "A","B","C","D","E","F","G","H","I","J","K","L","M",
       "N","O","P","Q","R","S","T","U","V","W","X","Y","Z" >>

Letters == {LowerLetters[i] : i \in 1..26} \cup {UpperLetters[i] : i \in 1..26}

Digits == {"0","1","2","3","4","5","6","7","8","9"}

\* The word characters of the regular expressions (ASCII part).
WordChars == Letters \cup Digits \cup {"_"}

\* What the substitution of sanitize_identifier keeps: word characters, slash, period, hyphen.
SafeChars == WordChars \cup {"/", ".", "-"}

\* Characters str.strip() removes when called without argument.
Whitespace == {" ", "\t", "\n", "\r"}

\* The backquote character (written by name: the lexer reads a backquote
\* inside a string as the start of a quoted comment).
BackQuote == "<backquote>"

\* The argument of identifier.strip(...): quotes, backtick, brackets, whitespace.
QuoteStripChars == {"\"", BackQuote, "[", "]", " ", "\t", "\n", "\r"}

\* The absent value (Python None); no text equals it.
None == << "<None>" >>

\* -------------------------------------------------------- str operations
LowerChar(c) ==
    IF \E i \in 1..26 : UpperLetters[i] = c
    THEN LowerLetters[CHOOSE i \in 1..26 : UpperLetters[i] = c]
    ELSE c

UpperChar(c) ==
    IF \E i \in 1..26 : LowerLetters[i] = c
    THEN UpperLetters[CHOOSE i \in 1..26 : LowerLetters[i] = c]
    ELSE c

\* str.lower()
Lower(s) == [i \in 1..Len(s) |-> LowerChar(s[i])]

\* str.upper()
Upper(s) == [i \in 1..Len(s) |-> UpperChar(s[i])]

\* The first position at or after i whose character is not in chars.
RECURSIVE FirstKept(_, _, _)
FirstKept(s, chars, i) ==
    IF i > Len(s) \/ s[i] \notin chars THEN i ELSE FirstKept(s, chars, i + 1)

\* The last position at or before i whose character is not in chars.
RECURSIVE LastKept(_, _, _)
LastKept(s, chars, i) ==
    IF i < 1 \/ s[i] \notin chars THEN i ELSE LastKept(s, chars, i - 1)

\* str.strip(chars): drop the leading and the trailing characters in chars.
StripChars(s, chars) ==
    SubSeq(s, FirstKept(s, chars, 1), LastKept(s, chars, Len(s)))

\* str.strip()
Strip(s) == StripChars(s, Whitespace)

\* re.sub with the pattern of line 217: every character outside SafeChars is removed.
RemoveUnsafe(s) == SelectSeq(s, LAMBDA c : c \in SafeChars)

\* s[:n]
Truncate(s, n) == IF Len(s) <= n THEN s ELSE SubSeq(s, 1, n)

\* The text before the first opening parenthesis: s.split(...)[0] of line 382.
BeforeParen(s) ==
    LET at == {i \in 1..Len(s) : s[i] = "("}
    IN  IF at = {} THEN s
        ELSE SubSeq(s, 1, (CHOOSE i \in at : \A j \in at : i <= j) - 1)

\* sep.join(parts)
RECURSIVE Join(_, _)
Join(parts, sep) ==
    IF parts = << >> THEN << >>
    ELSE IF Len(parts) = 1 THEN parts[1]
    ELSE parts[1] \o sep \o Join(Tail(parts), sep)

\* c * n
Repeat(unit, n) == [i \in 1..(n * Len(unit)) |-> unit[((i - 1) % Len(unit)) + 1]]

\* --------------------------------------------------------------- DB_CONFIG
DbTypes == {"mssql", "mysql", "postgresql"}

MssqlMaxIdentifier == 128
MysqlMaxIdentifier == 64
PostgresqlMaxIdentifier == 63
DefaultMaxIdentifier == 64

\* DB_CONFIG.get(db_type, {}).get('max_identifier', 64) (line 220)
MaxIdentifier(db_type) ==
    CASE db_type = "mssql" -> MssqlMaxIdentifier
      [] db_type = "mysql" -> MysqlMaxIdentifier
      [] db_type = "postgresql" -> PostgresqlMaxIdentifier
      [] OTHER -> DefaultMaxIdentifier

\* ------------------------------------------------------ sanitize_identifier
\* A sanitizer that strips the quoting only (the regular expression left out).
SanitizeStripOnly(identifier, db_type) ==
    Truncate(StripChars(identifier, QuoteStripChars), MaxIdentifier(db_type))

\* A sanitizer whose pattern lets whitespace through.
SanitizeKeepSpaces(identifier, db_type) ==
    LET stripped == StripChars(identifier, QuoteStripChars)
        clean == SelectSeq(stripped, LAMBDA c : c \in SafeChars \cup Whitespace)
    IN  Truncate(clean, MaxIdentifier(db_type))

sanitize_identifier(identifier, db_type) ==
    LET stripped == StripChars(identifier, QuoteStripChars)
        clean == RemoveUnsafe(stripped)
    IN  Truncate(clean, MaxIdentifier(db_type))

\* A TLA+ string as a Python str (a sequence of characters).
Chars(s) == [i \in 1..Len(s) |-> SubSeq(s, i, i)]

\* Python truthiness of an Optional[str]: None and the empty string are false.
Truthy(v) == v # None /\ v # << >>

\* SAFE_NAME_PATTERN.match(name): one or more safe characters up to the end,
\* where the end may stand before one trailing newline.
SafeNameMatch(name) ==
    LET body == IF name # << >> /\ name[Len(name)] = "\n"
                THEN SubSeq(name, 1, Len(name) - 1)
                ELSE name
    IN  /\ name # None
        /\ body # << >>
        /\ \A i \in 1..Len(body) : body[i] \in SafeChars

\* ------------------------------------------------------------- dict helpers
\* A Python dict is a sequence of [key, value] records in insertion order.
DictHas(d, k) == \E i \in 1..Len(d) : d[i].key = k

DictGet(d, k, default) ==
    IF DictHas(d, k)
    THEN d[CHOOSE i \in 1..Len(d) : d[i].key = k].value
    ELSE default

\* d[k] = v: a new key goes last, an existing key keeps its place.
DictSet(d, k, v) ==
    IF DictHas(d, k)
    THEN [i \in 1..Len(d) |-> IF d[i].key = k THEN [key |-> k, value |-> v] ELSE d[i]]
    ELSE Append(d, [key |-> k, value |-> v])

DictKeys(d) == [i \in 1..Len(d) |-> d[i].key]

\* ------------------------------------------------------ PARAMETERIZED_TYPES
LengthTypes == {Chars("nvarchar"), Chars("varchar"), Chars("char")}

LengthDecimalsTypes == {Chars("decimal"), Chars("numeric")}

ParameterizedTypes == LengthTypes \cup LengthDecimalsTypes

\* PARAMETERIZED_TYPES[base_type]
RequiredParamsNoDecimals(base_type) ==
    IF base_type \in ParameterizedTypes THEN {"length"} ELSE {}

RequiredParams(base_type) ==
    IF base_type \in LengthTypes THEN {"length"}
    ELSE IF base_type \in LengthDecimalsTypes THEN {"length", "decimals"}
    ELSE {}

\* ----------------------------------------------------------- type resolution
\* Lines 382-405 of process_tables: the mapped type of dtype, cut at the first
\* parenthesis, gives the base keyword; a parameterized keyword takes its
\* parameters from the row.  The result is [error, base_type, sql_type].
ResolveTypeLenient(type_map, dtype, length, decimals) ==
    LET base_type == Lower(Strip(BeforeParen(DictGet(type_map, dtype, << >>))))
        params == (IF length # << >> THEN << length >> ELSE << >>)
                  \o (IF decimals # << >> THEN << decimals >> ELSE << >>)
    IN  IF base_type = << >>
        THEN [error |-> "Undefined type", base_type |-> base_type, sql_type |-> None]
        ELSE [error |-> "none", base_type |-> base_type,
              sql_type |-> IF base_type \in ParameterizedTypes /\ params # << >>
                           THEN base_type \o <<"(">> \o Join(params, <<",">>) \o <<")">>
                           ELSE base_type]

ResolveType(type_map, dtype, length, decimals) ==
    LET base_type == Lower(Strip(BeforeParen(DictGet(type_map, dtype, << >>))))
        required == RequiredParams(base_type)
        params == (IF "length" \in required THEN << length >> ELSE << >>)
                  \o (IF "decimals" \in required THEN << decimals >> ELSE << >>)
    IN  IF base_type = << >>
        THEN [error |-> "Undefined type", base_type |-> base_type, sql_type |-> None]
        ELSE IF base_type \in ParameterizedTypes
        THEN IF "length" \in required /\ length = << >>
             THEN [error |-> "Missing length", base_type |-> base_type, sql_type |-> None]
             ELSE IF "decimals" \in required /\ decimals = << >>
             THEN [error |-> "Missing decimals", base_type |-> base_type, sql_type |-> None]
             ELSE [error |-> "none", base_type |-> base_type,
                   sql_type |-> base_type \o <<"(">> \o Join(params, <<",">>) \o <<")">>]
        ELSE [error |-> "none", base_type |-> base_type, sql_type |-> base_type]

\* ------------------------------------------------- CSVProcessor.process_tables
\* The cells of a DictionaryRow as the loop body reads them (lines 358-369).
TableNameOf(row) == sanitize_identifier(Lower(Strip(row.table_name)), "generic")

FieldNameOf(row) == sanitize_identifier(Strip(row.field_name), "generic")

DatatypeOf(row) == Lower(Strip(row.datatype))

IsFlagged(cell) == Upper(Strip(cell)) = << "X" >>

\* The columns the loop body reads by name before it looks at the table name
\* (lines 358-369).
EarlyColumns ==
    << Chars("Table Name"), Chars("Field Name"), Chars("Datatype"), Chars("Length"),
       Chars("Decimal Places"), Chars("Key"), Chars("Partition Column") >>

\* The column read when the column entry is built (line 428).
LateColumns == << Chars("Enforce") >>

\* row[...] raises KeyError when the header line has no such column, spelt so.
HasKeyError(headers, wanted) ==
    \E i \in 1..Len(wanted) : \A j \in 1..Len(headers) : headers[j] # wanted[i]

\* The type of a row's column: the resolver applied to the stripped cells.
RowType(type_map, row) ==
    ResolveType(type_map, DatatypeOf(row), Strip(row.length), Strip(row.decimal_places))

\* The entry a table gets on first sight (lines 375-380).
NewTable == [columns |-> << >>, keys |-> << >>, partition |-> None, partition_type |-> None]

\* tables[table_name]['keys'].append(field_name) (line 432)
AppendKeyFirst(keys, field_name) == << field_name >> \o keys

AppendKey(keys, field_name) == Append(keys, field_name)

\* if tables[table_name]['partition'] (line 434): the truth value of the recorded name.
PartitionRecorded(table) == Truthy(table.partition)

\* if table_name not in tables: tables[table_name] = {...} (lines 374-380)
EnsureTableFront(tbls, table_name) ==
    IF DictHas(tbls, table_name) THEN tbls
    ELSE << [key |-> table_name, value |-> NewTable] >> \o tbls

EnsureTable(tbls, table_name) ==
    IF DictHas(tbls, table_name) THEN tbls ELSE DictSet(tbls, table_name, NewTable)

\* One pass of the loop body (lines 357-442) over a row: the table model after
\* the row and the error it raises ("none" when it raises nothing).
FoldRow(tbls, row, type_map, headers) ==
    LET table_name == TableNameOf(row)
        field_name == FieldNameOf(row)
        is_key == IsFlagged(row.key)
        is_partition == IsFlagged(row.partition_column)
        resolved == RowType(type_map, row)
        created == EnsureTable(tbls, table_name)
        before == DictGet(created, table_name, NewTable)
        column == [field |-> field_name, type |-> resolved.sql_type,
                   enforce |-> IsFlagged(row.enforce)]
        with_column == [before EXCEPT !.columns = Append(@, column)]
        with_key == IF is_key
                    THEN [with_column EXCEPT !.keys = AppendKey(@, field_name)]
                    ELSE with_column
        with_partition == [with_key EXCEPT !.partition = field_name,
                                           !.partition_type = resolved.base_type]
    IN  IF HasKeyError(headers, EarlyColumns)
        THEN [tables |-> tbls, error |-> "Missing column in CSV", field |-> << >>]
        ELSE IF table_name = << >>
        THEN [tables |-> tbls, error |-> "none", field |-> << >>]
        ELSE IF resolved.error # "none"
        THEN [tables |-> created, error |-> resolved.error, field |-> field_name]
        ELSE IF HasKeyError(headers, LateColumns)
        THEN [tables |-> created, error |-> "Missing column in CSV", field |-> << >>]
        ELSE IF is_partition /\ PartitionRecorded(with_key)
        THEN [tables |-> DictSet(created, table_name, with_key),
              error |-> "Multiple partitions", field |-> table_name]
        ELSE [tables |-> DictSet(created, table_name,
                                 IF is_partition THEN with_partition ELSE with_key),
              error |-> "none", field |-> << >>]

\* ------------------------------------------------------------ SQLGenerator
\* _validate_config (lines 474-478): the error it raises, "none" when it passes.
ValidateConfigNoCheck(config) == "none"

ValidateConfig(config) ==
    IF ~SafeNameMatch(config.project_name) THEN "Invalid project name"
    ELSE IF config.database # "None" /\ config.database \notin DbTypes
    THEN "Unsupported database type"
    ELSE "none"

\* _quote (lines 480-486)
Quote(config, identifier) ==
    LET clean == sanitize_identifier(identifier, config.database)
    IN  CASE config.database = "mssql" -> <<"[">> \o clean \o <<"]">>
          [] config.database = "mysql" -> << BackQuote >> \o clean \o << BackQuote >>
          [] config.database = "postgresql" -> <<"\"">> \o clean \o <<"\"">>
          [] OTHER -> clean

\* str.replace(old, new) for a one-character old.
RECURSIVE Replace(_, _, _)
Replace(s, old, new) ==
    IF s = << >> THEN << >>
    ELSE (IF Head(s) = old THEN new ELSE << Head(s) >>) \o Replace(Tail(s), old, new)

\* _escape_string (lines 460-472)
EscapeString(config, value) ==
    LET clean_value == RemoveUnsafe(Strip(value))
        escaped == Replace(clean_value, "'", <<"'", "'">>)
        final == IF config.database = "postgresql"
                 THEN Replace(escaped, "%", <<"%", "%">>)
                 ELSE escaped
    IN  <<"'">> \o final \o <<"'">>

\* A statement of a layer document: what it does, the template it is formatted
\* from, the quoted object put into the template and, for CREATE TABLE, its
\* column list.
Statement(kind, template, target) ==
    [kind |-> kind, template |-> template, target |-> target, columns |-> << >>]

\* DB_CONFIG[database]['create_db'] (lines 57-62, 74-78, 89-92)
CreateDb(database) ==
    CASE database = "mssql" ->
            << [kind |-> "use_master", template |-> "USE master"],
               [kind |-> "drop_database", template |-> "DROP DATABASE IF EXISTS {db}"],
               [kind |-> "create_database", template |-> "CREATE DATABASE {db}"],
               [kind |-> "use_database", template |-> "USE {db}"] >>
      [] database = "mysql" ->
            << [kind |-> "drop_database", template |-> "DROP DATABASE IF EXISTS {db}"],
               [kind |-> "create_database", template |-> "CREATE DATABASE {db}"],
               [kind |-> "use_database", template |-> "USE {db}"] >>
      [] database = "postgresql" ->
            << [kind |-> "drop_database", template |-> "DROP DATABASE IF EXISTS {db}"],
               [kind |-> "create_database", template |-> "CREATE DATABASE {db}"] >>

\* DB_CONFIG[database]['schema'] (lines 63-67, 79-82, 93-96)
SchemaTemplates(database) ==
    CASE database = "mssql" ->
            [create |-> "CREATE SCHEMA {schema};",
             drop |-> "IF EXISTS (SELECT * FROM sys.schemas WHERE name = '{schema}') DROP SCHEMA {schema};"]
      [] database = "mysql" ->
            [create |-> "CREATE SCHEMA IF NOT EXISTS {schema};",
             drop |-> "DROP SCHEMA IF EXISTS {schema};"]
      [] database = "postgresql" ->
            [create |-> "CREATE SCHEMA IF NOT EXISTS {schema};",
             drop |-> "DROP SCHEMA IF EXISTS {schema} CASCADE;"]

\* _database_commands (lines 511-516)
DatabaseCommands(config) ==
    LET quoted_db == Quote(config, config.database_name)
        create_db == CreateDb(config.database)
    IN  [i \in 1..Len(create_db) |->
            Statement(create_db[i].kind, create_db[i].template,
                      IF create_db[i].kind = "use_master" THEN << >> ELSE quoted_db)]

\* _schema_commands (lines 518-527): the drop template, then the create template.
SchemaCommands(config, layer) ==
    LET quoted_layer == Quote(config, layer)
    IN  << Statement("drop_schema", SchemaTemplates(config.database).drop, quoted_layer),
           Statement("create_schema", SchemaTemplates(config.database).create, quoted_layer) >>

\* An entry of the column list of CREATE TABLE: the quoted name it opens
\* with (empty when its text is fixed), the type taken from the table model,
\* the fixed text of the template, NOT NULL, the DEFAULT literal and, for the
\* PRIMARY KEY entry, the quoted key names.
ColumnLine(kind, name, type, fixed, not_null, default, keys) ==
    [kind |-> kind, name |-> name, type |-> type, fixed |-> fixed, not_null |-> not_null,
     default |-> default, keys |-> keys]

\* The surrogate key template of the dialect (lines 55, 72, 87).
SurrogateKey(database) ==
    CASE database = "mssql" -> "{quoted} INT IDENTITY(1,1) NOT NULL"
      [] database = "mysql" -> "{quoted} INT AUTO_INCREMENT NOT NULL"
      [] database = "postgresql" -> "{quoted} SERIAL NOT NULL"

\* The ingestion timestamp column of the dialect (lines 56, 73, 88).
IngestedAt(database) ==
    CASE database = "mssql" -> "DWH_INGESTED_AT DATETIME2 DEFAULT SYSDATETIME()"
      [] database = "mysql" -> "DWH_INGESTED_AT TIMESTAMP(6) DEFAULT CURRENT_TIMESTAMP(6)"
      [] database = "postgresql" -> "DWH_INGESTED_AT TIMESTAMPTZ DEFAULT CURRENT_TIMESTAMP"

\* The PRIMARY KEY entry (lines 556-558): present when the key list is not empty.
PrimaryKeyLinesAlways(config, keys) ==
    << ColumnLine("primary_key", << >>, << >>, "PRIMARY KEY ({keys})", FALSE, None,
                  [i \in 1..Len(keys) |-> Quote(config, keys[i])]) >>

PrimaryKeyLinesPerKey(config, keys) ==
    [i \in 1..Len(keys) |->
        ColumnLine("primary_key", << >>, << >>, "PRIMARY KEY ({keys})", FALSE, None,
                   << Quote(config, keys[i]) >>)]

PrimaryKeyLines(config, keys) ==
    IF keys # << >>
    THEN << ColumnLine("primary_key", << >>, << >>, "PRIMARY KEY ({keys})", FALSE, None,
                       [i \in 1..Len(keys) |-> Quote(config, keys[i])]) >>
    ELSE << >>

\* The column list of one table (lines 535-558).
TableColumns(config, table, data) ==
    << ColumnLine("surrogate", Quote(config, table \o <<"_", "i", "d">>), << >>,
                  SurrogateKey(config.database), TRUE, None, << >>) >>
    \o [i \in 1..Len(data.columns) |->
            ColumnLine("column", Quote(config, data.columns[i].field),
                       data.columns[i].type, "{quoted_col} {type}",
                       data.columns[i].enforce, None, << >>)]
    \o << ColumnLine("audit", << >>, << >>, "DWH_RECORD_ID VARCHAR(255) NOT NULL",
                     TRUE, None, << >>),
          ColumnLine("audit", << >>, << >>, "DWH_JOB_RECORD_ID VARCHAR(255) NOT NULL",
                     TRUE, None, << >>),
          ColumnLine("audit", << >>, << >>,
                     "DWH_SOURCE_SYSTEM VARCHAR(255) DEFAULT {source_system} NOT NULL",
                     TRUE, EscapeString(config, config.source_system), << >>),
          ColumnLine("audit", << >>, << >>,
                     "DWH_SOURCE_TABLE VARCHAR(255) DEFAULT {table} NOT NULL",
                     TRUE, EscapeString(config, table), << >>),
          ColumnLine("audit", << >>, << >>, IngestedAt(config.database),
                     FALSE, None, << >>) >>
    \o PrimaryKeyLines(config, data.keys)

\* drop_sql (lines 560-564)
DropTableTemplate(database) ==
    IF database = "mssql"
    THEN "IF OBJECT_ID('{full_name}', 'U') IS NOT NULL DROP TABLE {full_name};"
    ELSE "DROP TABLE IF EXISTS {full_name};"

\* The statements of one table (lines 532-571): its drop, then its create.
TableStatementsCreateFirst(config, layer, table, data) ==
    LET full_name == Quote(config, layer) \o <<".">> \o Quote(config, table)
    IN  << [kind |-> "create_table", template |-> "CREATE TABLE {full_name} ({columns})",
            target |-> full_name, columns |-> TableColumns(config, table, data)],
           Statement("drop_table", DropTableTemplate(config.database), full_name) >>

TableStatements(config, layer, table, data) ==
    LET full_name == Quote(config, layer) \o <<".">> \o Quote(config, table)
    IN  << Statement("drop_table", DropTableTemplate(config.database), full_name),
           [kind |-> "create_table", template |-> "CREATE TABLE {full_name} ({columns})",
            target |-> full_name, columns |-> TableColumns(config, table, data)] >>

\* _table_commands (lines 529-573): for table, data in tables.items().
RECURSIVE TableCommandsReversed(_, _, _)
TableCommandsReversed(config, layer, tbls) ==
    IF tbls = << >> THEN << >>
    ELSE TableCommandsReversed(config, layer, Tail(tbls))
         \o TableStatements(config, layer, Head(tbls).key, Head(tbls).value)

RECURSIVE TableCommands(_, _, _)
TableCommands(config, layer, tbls) ==
    IF tbls = << >> THEN << >>
    ELSE TableStatements(config, layer, Head(tbls).key, Head(tbls).value)
         \o TableCommands(config, layer, Tail(tbls))

\* _format_commands (lines 575-578): the statements, the text put between two
\* of them and the text put after the last.
FormatCommands(config, commands) ==
    IF config.mssql_go
    THEN [commands |-> commands, joiner |-> "\nGO\n", terminator |-> "\nGO"]
    ELSE [commands |-> commands, joiner |-> ";\n", terminator |-> ";"]

\* The body of the loop of generate_ddl for one layer (lines 503-507).
LayerDocument(config, layer, tbls) ==
    FormatCommands(config,
        DatabaseCommands(config) \o SchemaCommands(config, layer)
        \o TableCommands(config, layer, tbls))

\* The key a layer's document is stored under (line 507).
FileName(layer) == layer \o Chars(".sql")

\* ddl[f"{layer}.sql"] = ... (line 507)
StoreDocumentAppend(ddl_files, layer, document) ==
    Append(ddl_files, [key |-> FileName(layer), value |-> document])

StoreDocument(ddl_files, layer, document) ==
    DictSet(ddl_files, FileName(layer), document)

\* ------------------------------------------------ CSVProcessor.validate_structure
RequiredColumns ==
    { Chars("table name"), Chars("field name"), Chars("datatype"), Chars("length"),
      Chars("decimal places") }

\* Lines 291-300: the error validate_structure raises, "none" when it passes.
ValidateStructure(headers) ==
    LET columns == {Lower(Strip(headers[i])) : i \in 1..Len(headers)}
    IN  IF headers = << >> THEN "Empty CSV file"
        ELSE IF RequiredColumns \ columns # {} THEN "Missing columns"
        ELSE "none"

\* ---------------------------------------------------- CSVProcessor.read_mapping
\* Lines 324-332: the rows of the mapping file folded into the mapping.
RECURSIVE FoldMapping(_, _)
FoldMapping(mapping, file_rows) ==
    IF file_rows = << >> THEN mapping
    ELSE LET row == Head(file_rows)
             source == sanitize_identifier(Lower(Strip(row[1])), "generic")
             target == sanitize_identifier(Strip(row[2]), "generic")
         IN  IF Len(row) < 2 THEN FoldMapping(mapping, Tail(file_rows))
             ELSE IF source # << >> /\ target # << >>
             THEN FoldMapping(DictSet(mapping, source, target), Tail(file_rows))
             ELSE FoldMapping(mapping, Tail(file_rows))

\* Lines 316-336: [error, mapping].
ReadMapping(file) ==
    LET mapping == FoldMapping(<< >>, file.rows)
    IN  IF file.headers = << >> \/ Len(file.headers) < 2
        THEN [error |-> "Invalid mapping file format", mapping |-> << >>]
        ELSE IF mapping = << >>
        THEN [error |-> "No valid mappings found in file", mapping |-> << >>]
        ELSE [error |-> "none", mapping |-> mapping]

\* ------------------------------------------------------------------- inputs
\* Header lines of the dictionary file.
ExactHeaders ==
    << Chars("Table Name"), Chars("Field Name"), Chars("Datatype"), Chars("Length"),
       Chars("Decimal Places"), Chars("Key"), Chars("Enforce"), Chars("Partition Column") >>

HeaderLines ==
    { ExactHeaders,
      [i \in 1..Len(ExactHeaders) |-> Lower(ExactHeaders[i])],
      SubSeq(ExactHeaders, 1, 6) \o SubSeq(ExactHeaders, 8, 8),
      SubSeq(ExactHeaders, 1, 7),
      SubSeq(ExactHeaders, 1, 3),
      << >> }

\* Mapping files: a header line and rows of cells.
MappingFiles ==
    { [headers |-> << Chars("source"), Chars("target") >>,
       rows |-> << << Chars("INT_TYPE"), Chars("int") >>,
                   << Chars(" dec "), Chars("DECIMAL") >>,
                   << Chars("vc"), Chars("[varchar]") >>,
                   << Chars("decp"), Chars("decimal(10,2)") >>,
                   << Chars("orphan") >>,
                   << Chars(" "), Chars("text") >> >>],
      [headers |-> << Chars("source"), Chars("target") >>,
       rows |-> << << Chars("only") >>, << Chars(";"), Chars("int") >> >>],
      [headers |-> << Chars("source") >>, rows |-> << >>] }

DictionaryRow(table_name, field_name, datatype, length, decimal_places, key, enforce, partition_column) ==
    [table_name |-> Chars(table_name), field_name |-> Chars(field_name),
     datatype |-> Chars(datatype), length |-> Chars(length),
     decimal_places |-> Chars(decimal_places), key |-> Chars(key),
     enforce |-> Chars(enforce), partition_column |-> Chars(partition_column)]

\* The rows a dictionary file is made of.
DictionaryRows ==
    { DictionaryRow("T", "a", "Int_Type", "10", "", "X", "", ""),
      DictionaryRow("T", "b;", "int_type", "", "", "x", "X", ""),
      DictionaryRow("[t]", "[]", "int_type", "", "", "", "", "X"),
      DictionaryRow("T", "p", "int_type", "", "", "", "", " x "),
      DictionaryRow("u", "c", "DEC", "10", "2", "X", "X", "X"),
      DictionaryRow("u", "h", "vc", "5", "", "", "", ""),
      DictionaryRow("T", "q", "decp", "10", "2", "", "", ""),
      DictionaryRow(" ", "g", "nope", "", "", "X", "", "X"),
      DictionaryRow("u", "d", "dec", "10", " ", "", "", ""),
      DictionaryRow("T", "e", "vc", "", "", "", "", "X"),
      DictionaryRow("u", "f", "nope", "", "", "X", "", "") }

BaseConfig(database, mssql_go, layers) ==
    [project_name |-> Chars("demo"), database |-> database, database_name |-> Chars("dwh"),
     source_system |-> Chars("sap-erp"), medallion_layers |-> layers, mssql_go |-> mssql_go]

\* The configurations the generator is built with.
Configs ==
    { BaseConfig("mssql", TRUE, << Chars("bronze"), Chars("silver") >>),
      BaseConfig("mssql", FALSE, << Chars("gold"), Chars("gold") >>),
      BaseConfig("mysql", FALSE, << Chars("silver"), Chars("bronze"), Chars("silver") >>),
      BaseConfig("mysql", TRUE, << Chars("bronze") >>),
      BaseConfig("postgresql", FALSE, << Chars("bronze"), Chars("silver") >>),
      BaseConfig("postgresql", FALSE, << >>),
      BaseConfig("None", FALSE, << Chars("bronze") >>),
      BaseConfig("oracle", FALSE, << Chars("bronze") >>),
      [BaseConfig("mysql", FALSE, << Chars("bronze") >>)
           EXCEPT !.project_name = Chars("my project!")],
      [BaseConfig("mssql", TRUE, << Chars("bronze") >>)
           EXCEPT !.database_name = Chars("dwh]; DROP")],
      [BaseConfig("postgresql", FALSE, << Chars("bronze") >>)
           EXCEPT !.database_name = None] }

\* -------------------------------------------------------------------- state
VARIABLES
    pc,             \* where _generate_project_files stands
    config,         \* the ProjectConfig
    fieldnames,     \* the header line of the dictionary file
    mapping_file,   \* the mapping file
    type_map,       \* the mapping read_mapping returned
    rows,           \* the dictionary rows read so far
    tables,         \* the local table model of process_tables
    model,          \* the table model process_tables returned to its caller
    error,          \* the exception that ended the run
    validated,      \* the SQLGenerator has been constructed
    layer_index,    \* layers generate_ddl has gone through
    ddl,            \* the dict generate_ddl fills
    written,        \* names of the files written under sql/
    probe           \* a single call of a function, for the function-level properties

vars == << pc, config, fieldnames, mapping_file, type_map, rows, tables, model, error,
           validated, layer_index, ddl, written, probe >>

pipeline == << pc, config, fieldnames, mapping_file, type_map, rows, tables, model, error,
               validated, layer_index, ddl, written >>

NoError == [kind |-> "none", field |-> << >>, at |-> "none"]

NoProbe == [fn |-> "none"]

NotReturned == [returned |-> FALSE, tables |-> << >>]

Pending == [tables |-> << >>, error |-> "pending", field |-> << >>]

Init ==
    /\ pc = "start"
    /\ config \in Configs
    /\ fieldnames \in HeaderLines
    /\ mapping_file \in MappingFiles
    /\ type_map = << >>
    /\ rows = << >>
    /\ tables = << >>
    /\ model = NotReturned
    /\ error = NoError
    /\ validated = FALSE
    /\ layer_index = 0
    /\ ddl = << >>
    /\ written = {}
    /\ probe = NoProbe

\* An exception leaves _generate_project_files: nothing after it runs.
Raise(kind, field) ==
    /\ pc' = "failed"
    /\ error' = [kind |-> kind, field |-> field, at |-> pc]

\* if self.config.database is false (line 639, else branch): no SQL is generated.
SkipDatabase ==
    /\ pc = "start"
    /\ config.database = "None"
    /\ pc' = "done"
    /\ UNCHANGED << config, fieldnames, mapping_file, type_map, rows, tables, model, error,
                    validated, layer_index, ddl, written, probe >>

\* CSVProcessor.validate_structure(self.config.csv_path) (line 640)
CheckStructure ==
    /\ pc = "start"
    /\ config.database # "None"
    /\ IF ValidateStructure(fieldnames) # "none"
       THEN Raise(ValidateStructure(fieldnames), << >>)
       ELSE pc' = "read_mapping" /\ UNCHANGED error
    /\ UNCHANGED << config, fieldnames, mapping_file, type_map, rows, tables, model,
                    validated, layer_index, ddl, written, probe >>

\* type_map = CSVProcessor.read_mapping(...) (line 641)
LoadMapping ==
    /\ pc = "read_mapping"
    /\ LET read == ReadMapping(mapping_file)
       IN  IF read.error # "none"
           THEN Raise(read.error, << >>) /\ UNCHANGED type_map
           ELSE pc' = "process_tables" /\ type_map' = read.mapping /\ UNCHANGED error
    /\ UNCHANGED << config, fieldnames, mapping_file, rows, tables, model,
                    validated, layer_index, ddl, written, probe >>

\* Where the loop of process_tables stands after a row: a raise ends the call.
AfterRowContinue(result) == "process_tables"

AfterRow(result) == IF result.error # "none" THEN "failed" ELSE "process_tables"

\* One iteration of the loop of process_tables (lines 356-442).
ProcessRow(row) ==
    /\ pc = "process_tables"
    /\ Len(rows) < MaxRows
    /\ LET result == FoldRow(tables, row, type_map, fieldnames)
       IN  /\ rows' = Append(rows, row)
           /\ tables' = result.tables
           /\ pc' = AfterRow(result)
           /\ error' = IF result.error # "none"
                       THEN [kind |-> result.error, field |-> result.field, at |-> pc]
                       ELSE error
    /\ UNCHANGED << config, fieldnames, mapping_file, type_map, model,
                    validated, layer_index, ddl, written, probe >>

\* The reader is exhausted: return tables (line 444).
EndOfFile ==
    /\ pc = "process_tables"
    /\ model' = [returned |-> TRUE, tables |-> tables]
    /\ pc' = "construct"
    /\ UNCHANGED << config, fieldnames, mapping_file, type_map, rows, tables, error,
                    validated, layer_index, ddl, written, probe >>

\* generator = SQLGenerator(self.config) (lines 645, 450-458)
Construct ==
    /\ pc = "construct"
    /\ IF ValidateConfig(config) # "none"
       THEN Raise(ValidateConfig(config), << >>) /\ UNCHANGED validated
       ELSE pc' = "generate_ddl" /\ validated' = TRUE /\ UNCHANGED error
    /\ UNCHANGED << config, fieldnames, mapping_file, type_map, rows, tables, model,
                    layer_index, ddl, written, probe >>

\* One iteration of the loop of generate_ddl (lines 502-507).  Quoting an
\* unset database name, or escaping an unset source system, raises.
GenerateLayer ==
    /\ pc = "generate_ddl"
    /\ config.database # "None"
    /\ layer_index < Len(config.medallion_layers)
    /\ LET layer == config.medallion_layers[layer_index + 1]
       IN  IF config.database_name = None \/ (config.source_system = None /\ model.tables # << >>)
           THEN Raise("AttributeError", << >>) /\ UNCHANGED << ddl, layer_index >>
           ELSE /\ ddl' = StoreDocument(ddl, layer, LayerDocument(config, layer, model.tables))
                /\ layer_index' = layer_index + 1
                /\ UNCHANGED << pc, error >>
    /\ UNCHANGED << config, fieldnames, mapping_file, type_map, rows, tables, model,
                    validated, written, probe >>

\* generate_ddl returns and every document is written (lines 646-652).
WriteFiles ==
    /\ pc = "generate_ddl"
    /\ config.database = "None" \/ layer_index = Len(config.medallion_layers)
    /\ written' = {ddl[i].key : i \in 1..Len(ddl)}
    /\ pc' = "done"
    /\ UNCHANGED << config, fieldnames, mapping_file, type_map, rows, tables, model, error,
                    validated, layer_index, ddl, probe >>

Next ==
    \/ SkipDatabase
    \/ CheckStructure
    \/ LoadMapping
    \/ \E row \in DictionaryRows : ProcessRow(row)
    \/ EndOfFile
    \/ Construct
    \/ GenerateLayer
    \/ WriteFiles

Spec == Init /\ [][Next]_vars

\* ------------------------------------------------- sanitize_identifier, called alone
\* Characters the probed identifiers are built from.
ProbeChars == { "a", "7", "_", "-", "\"", BackQuote, "]", ";", " ", "\t" }

ProbeEnds == { << >> } \cup { << c >> : c \in ProbeChars }

ProbeUnits == { << "a" >>, << "a", " " >>, << ";", "b" >>, << "[", "." >> }

PadLengths == { n \in 0..MaxPad : n < 2 \/ (n > 30 /\ n < 34) \/ (n > 61 /\ n < 66) \/ n > 126 }

ProbeDbTypes == { "mssql", "mysql", "postgresql", "generic" }

IdleConfig == BaseConfig("None", FALSE, << >>)

\* The pipeline at rest: the function-level specifications leave it alone.
PipelineIdle ==
    /\ pc = "idle"
    /\ config = IdleConfig
    /\ fieldnames = << >>
    /\ mapping_file = [headers |-> << >>, rows |-> << >>]
    /\ type_map = << >>
    /\ rows = << >>
    /\ tables = << >>
    /\ model = NotReturned
    /\ error = NoError
    /\ validated = FALSE
    /\ layer_index = 0
    /\ ddl = << >>
    /\ written = {}

InitSanitize ==
    /\ PipelineIdle
    /\ \E pre \in ProbeEnds, suf \in ProbeEnds, unit \in ProbeUnits,
          n \in PadLengths, db_type \in ProbeDbTypes :
          probe = [fn |-> "sanitize_identifier",
                   identifier |-> pre \o Repeat(unit, n) \o suf,
                   db_type |-> db_type, once |-> None, twice |-> None]

\* sanitize_identifier(identifier, db_type)
SanitizeOnce ==
    /\ probe.fn = "sanitize_identifier"
    /\ probe.once = None
    /\ probe' = [probe EXCEPT !.once = sanitize_identifier(probe.identifier, probe.db_type)]
    /\ UNCHANGED pipeline

\* sanitize_identifier of the result of the first call
SanitizeTwice ==
    /\ probe.fn = "sanitize_identifier"
    /\ probe.once # None
    /\ probe.twice = None
    /\ probe' = [probe EXCEPT !.twice = sanitize_identifier(probe.once, probe.db_type)]
    /\ UNCHANGED pipeline

NextSanitize == SanitizeOnce \/ SanitizeTwice

SpecSanitize == InitSanitize /\ [][NextSanitize]_vars

\* ------------------------------------------------------ type resolution, called alone
\* Mapped SQL types (the values of the type map).
ProbeTargets ==
    { Chars("nvarchar"), Chars("VARCHAR"), Chars("char"), Chars("Decimal"), Chars("numeric"),
      Chars("int"), Chars("datetime2"), Chars("decimal(18,4)"), Chars("varchar (50)"),
      Chars("chars"), Chars(" ") }

ProbeLengths == { Chars(""), Chars("10"), Chars(" 5 "), Chars(" "), Chars("max") }

ProbeDecimals == { Chars(""), Chars("2"), Chars(" "), Chars(" 0") }

InitResolve ==
    /\ PipelineIdle
    /\ \E target \in ProbeTargets, length \in ProbeLengths, decimals \in ProbeDecimals :
          probe = [fn |-> "resolve",
                   type_map |-> << [key |-> Chars("amount"), value |-> target] >>,
                   row |-> [table_name |-> Chars("t"), field_name |-> Chars("price"),
                            datatype |-> Chars(" Amount"), length |-> length,
                            decimal_places |-> decimals, key |-> << >>,
                            enforce |-> << >>, partition_column |-> << >>],
                   result |-> Pending]

\* process_tables on a dictionary of this one row (lines 353-444).
Resolve ==
    /\ probe.fn = "resolve"
    /\ probe.result = Pending
    /\ probe' = [probe EXCEPT !.result =
                    FoldRow(<< >>, probe.row, probe.type_map, ExactHeaders)]
    /\ UNCHANGED pipeline

NextResolve == Resolve

SpecResolve == InitResolve /\ [][NextResolve]_vars

\* ------------------------------------------- dictionaries with long table names
\* Table names around the identifier limits of the dialects.
LongNames ==
    { Repeat(<< "a" >>, PostgresqlMaxIdentifier) \o << "b" >>,
      Repeat(<< "a" >>, PostgresqlMaxIdentifier) \o << "c" >>,
      Repeat(<< "a" >>, PostgresqlMaxIdentifier - 1) \o << "b" >>,
      Repeat(<< "a" >>, DefaultMaxIdentifier) \o << "b" >>,
      << "t" >> }

LongRows ==
    { [DictionaryRow("", "id", "int_type", "", "", "X", "", "") EXCEPT !.table_name = name] :
          name \in LongNames }

LongConfigs ==
    { BaseConfig("mssql", TRUE, << Chars("bronze") >>),
      BaseConfig("mysql", FALSE, << Chars("bronze") >>),
      BaseConfig("postgresql", FALSE, << Chars("bronze"), Chars("silver") >>) }

InitLong ==
    /\ pc = "start"
    /\ config \in LongConfigs
    /\ fieldnames = ExactHeaders
    /\ mapping_file = [headers |-> << Chars("source"), Chars("target") >>,
                       rows |-> << << Chars("int_type"), Chars("int") >> >>]
    /\ type_map = << >>
    /\ rows = << >>
    /\ tables = << >>
    /\ model = NotReturned
    /\ error = NoError
    /\ validated = FALSE
    /\ layer_index = 0
    /\ ddl = << >>
    /\ written = {}
    /\ probe = NoProbe

NextLong ==
    \/ CheckStructure
    \/ LoadMapping
    \/ \E row \in LongRows : ProcessRow(row)
    \/ EndOfFile
    \/ Construct
    \/ GenerateLayer
    \/ WriteFiles

SpecLong == InitLong /\ [][NextLong]_vars

\* ================================================================ properties
\* Names of the tables of the rows read so far, each at its first occurrence,
\* rows with a blank table name left out.
RECURSIVE FirstSeenTables(_)
FirstSeenTables(read) ==
    IF read = << >> THEN << >>
    ELSE LET before == FirstSeenTables(SubSeq(read, 1, Len(read) - 1))
             name == TableNameOf(read[Len(read)])
         IN  IF name = << >> \/ \E i \in 1..Len(before) : before[i] = name
             THEN before
             ELSE Append(before, name)

\* The rows read so far that belong to the table.
RowsOfTable(read, name) == SelectSeq(read, LAMBDA r : TableNameOf(r) = name)

\* C1: whenever two of the rows read name the same non-blank table, both carry
\* the partition flag and both resolve their type, the build has failed: no
\* table model is returned and no DDL exists, whatever the two field names are.
C1_SecondPartitionRowFails ==
    \A i, j \in 1..Len(rows) :
        ( /\ i < j
          /\ TableNameOf(rows[i]) # << >>
          /\ TableNameOf(rows[i]) = TableNameOf(rows[j])
          /\ IsFlagged(rows[i].partition_column)
          /\ IsFlagged(rows[j].partition_column)
          /\ RowType(type_map, rows[i]).error = "none"
          /\ RowType(type_map, rows[j]).error = "none" )
        => (pc = "failed" /\ ~model.returned /\ ddl = << >>)

\* C2: once a dictionary row has raised, process_tables has returned no table
\* model, no SQLGenerator was built, generate_ddl made no document and no file
\* was written, however many rows were folded before.
C2_NoPartialOutput ==
    error.at = "process_tables"
        => /\ ~model.returned
           /\ ~validated
           /\ layer_index = 0
           /\ ddl = << >>
           /\ written = {}

\* C2 witness: the third row raised after two tables had been built.
C2_Witness ==
    /\ pc = "failed"
    /\ error.at = "process_tables"
    /\ error.kind = "Missing decimals"
    /\ Len(rows) = 3
    /\ Len(tables) = 2
    /\ \A i \in 1..Len(tables) : tables[i].value.columns # << >>

\* C8: no table of the model holds a column whose field name is empty, and a
\* row with a non-blank table name and an empty field name fails the build.
C8_EmptyFieldNameRejected ==
    /\ \A i \in 1..Len(tables) :
          \A j \in 1..Len(tables[i].value.columns) :
              tables[i].value.columns[j].field # << >>
    /\ \A i \in 1..Len(rows) :
          (TableNameOf(rows[i]) # << >> /\ FieldNameOf(rows[i]) = << >>) => pc = "failed"

\* The layers whose document is stored under the key.
LayersOfKey(key) ==
    { config.medallion_layers[i] : i \in { j \in 1..Len(config.medallion_layers) :
                                            FileName(config.medallion_layers[j]) = key } }

\* The statements of a document of the given kind.
OfKind(document, kind) == SelectSeq(document.commands, LAMBDA c : c.kind = kind)

\* The qualified names of the tables first seen in the rows read, for a layer.
ExpectedTargets(layer) ==
    LET seen == FirstSeenTables(rows)
    IN  [i \in 1..Len(seen) |-> Quote(config, layer) \o <<".">> \o Quote(config, seen[i])]

\* C3: in every layer document the CREATE TABLE statements, and the DROP
\* statements paired with them, name the tables in the order in which the
\* table names were first seen in the rows.
C3_TablesInFirstSeenOrder ==
    \A k \in 1..Len(ddl) :
        \A layer \in LayersOfKey(ddl[k].key) :
            LET creates == OfKind(ddl[k].value, "create_table")
                drops == OfKind(ddl[k].value, "drop_table")
            IN  /\ [i \in 1..Len(creates) |-> creates[i].target] = ExpectedTargets(layer)
                /\ [i \in 1..Len(drops) |-> drops[i].target] = ExpectedTargets(layer)

\* C3 witness: a document exists for rows of two tables where the first table
\* comes back after the second was first seen.
C3_Witness ==
    /\ Len(ddl) > 0
    /\ Len(rows) = 3
    /\ TableNameOf(rows[1]) # << >>
    /\ TableNameOf(rows[2]) # << >>
    /\ TableNameOf(rows[1]) # TableNameOf(rows[2])
    /\ TableNameOf(rows[3]) = TableNameOf(rows[1])
    /\ Len(OfKind(ddl[1].value, "create_table")) = 2

\* The field names of the key-flagged rows of a table, in row order.
KeyFieldsOf(read, name) ==
    LET flagged == SelectSeq(RowsOfTable(read, name), LAMBDA r : IsFlagged(r.key))
    IN  [i \in 1..Len(flagged) |-> FieldNameOf(flagged[i])]

\* C4: in every layer document, the CREATE TABLE of a table with N >= 1
\* key-flagged rows holds exactly one PRIMARY KEY entry, listing the N field
\* names quoted for the dialect in row order; a table with no key-flagged row
\* holds no PRIMARY KEY entry.
C4_OnePrimaryKeyClause ==
    \A k \in 1..Len(ddl) :
        LET creates == OfKind(ddl[k].value, "create_table")
            seen == FirstSeenTables(rows)
        IN  /\ Len(creates) = Len(seen)
            /\ \A i \in 1..Len(creates) :
                  LET clauses == SelectSeq(creates[i].columns,
                                           LAMBDA c : c.kind = "primary_key")
                      fields == KeyFieldsOf(rows, seen[i])
                  IN  IF fields = << >>
                      THEN clauses = << >>
                      ELSE /\ Len(clauses) = 1
                           /\ clauses[1].keys =
                                 [j \in 1..Len(fields) |-> Quote(config, fields[j])]

\* C4 witness: a document holds a table with two different key fields and a
\* table without a key.
C4_Witness ==
    /\ Len(ddl) > 0
    /\ \E name \in {FirstSeenTables(rows)[i] : i \in 1..Len(FirstSeenTables(rows))} :
          /\ Len(KeyFieldsOf(rows, name)) = 2
          /\ KeyFieldsOf(rows, name)[1] # KeyFieldsOf(rows, name)[2]
    /\ \E name \in {FirstSeenTables(rows)[i] : i \in 1..Len(FirstSeenTables(rows))} :
          KeyFieldsOf(rows, name) = << >>

\* The base keyword the probed row's type maps to.
ProbeBase == Lower(Strip(BeforeParen(probe.type_map[1].value)))

\* The column the probed row became, when it was accepted.
ProbeColumnType == probe.result.tables[1].value.columns[1].type

\* C5: a row whose type maps to nvarchar, varchar or char fails with the
\* missing-length error naming the field when its length is blank, and else
\* gets exactly base(length); a row whose type maps to decimal or numeric
\* fails likewise on a blank length, fails with the missing-decimals error on
\* blank decimals, and else gets exactly base(length,decimals); any other
\* base keyword is the type itself, whatever length and decimals are.
C5_TypeResolution ==
    (probe.fn = "resolve" /\ probe.result # Pending) =>
        LET length == Strip(probe.row.length)
            decimals == Strip(probe.row.decimal_places)
            result == probe.result
        IN  CASE ProbeBase = << >> -> result.error = "Undefined type"
              [] ProbeBase \in {Chars("nvarchar"), Chars("varchar"), Chars("char")} ->
                    IF length = << >>
                    THEN result.error = "Missing length" /\ result.field = Chars("price")
                    ELSE /\ result.error = "none"
                         /\ ProbeColumnType = ProbeBase \o <<"(">> \o length \o <<")">>
              [] ProbeBase \in {Chars("decimal"), Chars("numeric")} ->
                    IF length = << >>
                    THEN result.error = "Missing length" /\ result.field = Chars("price")
                    ELSE IF decimals = << >>
                    THEN result.error = "Missing decimals" /\ result.field = Chars("price")
                    ELSE /\ result.error = "none"
                         /\ ProbeColumnType =
                               ProbeBase \o <<"(">> \o length \o <<",">> \o decimals \o <<")">>
              [] OTHER -> result.error = "none" /\ ProbeColumnType = ProbeBase

\* C5 witness: a decimal row of length 10 and decimals 2 became decimal(10,2).
C5_Witness ==
    /\ probe.fn = "resolve"
    /\ probe.result # Pending
    /\ probe.result.error = "none"
    /\ probe.row.length = Chars("10")
    /\ probe.row.decimal_places = Chars("2")
    /\ ProbeColumnType = Chars("decimal(10,2)")

\* C6: the result of sanitize_identifier holds letters, digits, underscore,
\* slash, period and hyphen only, for every identifier and dialect key.
C6_OnlySafeCharacters ==
    (probe.fn = "sanitize_identifier" /\ probe.once # None) =>
        \A i \in 1..Len(probe.once) :
            probe.once[i] \in Letters \cup Digits \cup {"_", "/", ".", "-"}

\* C6 witness: an identifier holding a semicolon, a quote character and
\* whitespace was sanitized to a non-empty result.
C6_Witness ==
    /\ probe.fn = "sanitize_identifier"
    /\ probe.once # None
    /\ probe.once # << >>
    /\ \E i \in 1..Len(probe.identifier) : probe.identifier[i] = ";"
    /\ \E i \in 1..Len(probe.identifier) : probe.identifier[i] \in {"\"", BackQuote, "]"}
    /\ \E i \in 2..(Len(probe.identifier) - 1) : probe.identifier[i] = " "

\* C7: sanitizing the result of sanitize_identifier again, with the same
\* dialect key, gives the same result.
C7_Idempotent ==
    (probe.fn = "sanitize_identifier" /\ probe.twice # None) => probe.twice = probe.once

\* C7 witness: an identifier with unsafe characters and more safe characters
\* than the dialect's limit was truncated to the limit and sanitized again.
C7_Witness ==
    /\ probe.fn = "sanitize_identifier"
    /\ probe.twice # None
    /\ probe.db_type = "postgresql"
    /\ Len(SelectSeq(probe.identifier, LAMBDA c : c \in SafeChars)) > PostgresqlMaxIdentifier
    /\ Len(probe.once) = PostgresqlMaxIdentifier
    /\ \E i \in 1..Len(probe.identifier) : probe.identifier[i] \notin SafeChars

\* C9: no row is folded into the table model before the SQLGenerator has
\* validated the configuration, and no statement is generated for a database
\* name that fails the identifier-safety check.
C9_ConfigValidatedBeforeRows ==
    /\ (\E i \in 1..Len(tables) : tables[i].value.columns # << >>) => validated
    /\ ddl # << >> => SafeNameMatch(config.database_name)

\* C10 as stated: when generate_ddl has returned, its result holds one
\* document per entry of config.medallion_layers, in the order given.
C10_OneDocumentPerLayerEntry ==
    (pc = "done" /\ validated) =>
        DictKeys(ddl) = [i \in 1..Len(config.medallion_layers) |->
                            FileName(config.medallion_layers[i])]

\* The layers generate_ddl has gone through, each at its first occurrence.
RECURSIVE FirstOccurrences(_)
FirstOccurrences(layers) ==
    IF layers = << >> THEN << >>
    ELSE LET before == FirstOccurrences(SubSeq(layers, 1, Len(layers) - 1))
             last == layers[Len(layers)]
         IN  IF \E i \in 1..Len(before) : before[i] = last THEN before
             ELSE Append(before, last)

\* What the code keeps for C10: generate_ddl goes through config.medallion_layers in the order
\* given and stores each layer's document under '<layer>.sql'; the result
\* holds one document per distinct layer name, keyed in the order of first
\* occurrence, each naming its layer's schema.
C10_OneDocumentPerLayerName ==
    LET done == FirstOccurrences(SubSeq(config.medallion_layers, 1, layer_index))
    IN  /\ DictKeys(ddl) = [i \in 1..Len(done) |-> FileName(done[i])]
        /\ \A i \in 1..Len(ddl) :
              LET schemas == OfKind(ddl[i].value, "create_schema")
              IN  Len(schemas) = 1 /\ schemas[1].target = Quote(config, done[i])

\* C10 witness: generate_ddl returned fewer documents than layer entries.
C10_Witness ==
    /\ pc = "done"
    /\ validated
    /\ Len(ddl) > 0
    /\ Len(ddl) < Len(config.medallion_layers)
    /\ written = {ddl[i].key : i \in 1..Len(ddl)}

\* The eight columns of the dictionary, as the header line is compared with them.
EightColumns == { Lower(ExactHeaders[i]) : i \in 1..Len(ExactHeaders) }

\* C11: a dictionary whose header line validate_structure accepted holds all
\* eight columns, letter case aside, and process_tables never fails on it for
\* a missing column.
C11_AcceptedHeadersSuffice ==
    /\ (config.database # "None" /\ pc # "start" /\ error.at # "start") =>
          EightColumns \subseteq { Lower(Strip(fieldnames[i])) : i \in 1..Len(fieldnames) }
    /\ error.kind # "Missing column in CSV"

\* The mapping file with every target cut down to its keyword before the
\* opening parenthesis.
BareTargets(file) ==
    [file EXCEPT !.rows = [i \in 1..Len(file.rows) |->
        IF Len(file.rows[i]) < 2 THEN file.rows[i]
        ELSE << file.rows[i][1], BeforeParen(file.rows[i][2]) >>]]

\* C12: every column of the table model has the type its row resolves to
\* when the targets of the mapping file are the bare keywords: parameters
\* embedded in a target change nothing, the row's own length and decimals
\* make the column type.
C12_MappingSuppliesTypeFamily ==
    \A k \in 1..Len(tables) :
        \A j \in 1..Len(tables[k].value.columns) :
            tables[k].value.columns[j].type
                = RowType(ReadMapping(BareTargets(mapping_file)).mapping,
                          RowsOfTable(rows, tables[k].key)[j]).sql_type

\* C13: a step of process_tables over a row that has a table name cell, blank
\* after sanitization, raises nothing and leaves the table model as it was.
C13_BlankTableRowSkipped ==
    [][ ( /\ Len(rows') > Len(rows)
          /\ \E j \in 1..Len(fieldnames) : fieldnames[j] = Chars("Table Name")
          /\ TableNameOf(rows'[Len(rows')]) = << >> )
        => (tables' = tables /\ error' = error /\ pc' = pc) ]_vars

\* What the code keeps for C13: under the eight exact column names the blank
\* row is skipped, whatever its other cells hold.
C13_BlankTableRowSkippedExactHeaders ==
    [][ ( /\ Len(rows') > Len(rows)
          /\ fieldnames = ExactHeaders
          /\ TableNameOf(rows'[Len(rows')]) = << >> )
        => (tables' = tables /\ error' = error /\ pc' = pc) ]_vars

\* What the statements from DB_CONFIG[...]['create_db'] do.
DatabaseKinds == { "use_master", "drop_database", "create_database", "use_database" }

\* The statement that drops what a statement creates.
DropOf(kind) == IF kind = "create_schema" THEN "drop_schema" ELSE "drop_table"

\* What the code keeps for C14: every layer document opens with the database
\* statements, goes on with the DROP and then the CREATE of the layer's
\* schema, and then holds, table by table, the DROP of the table followed at
\* once by its CREATE TABLE.
C14_PairsInOrder ==
    \A k \in 1..Len(ddl) :
        LET c == ddl[k].value.commands
            n == Cardinality({ i \in 1..Len(c) : c[i].kind \in DatabaseKinds })
        IN  /\ \A i \in 1..Len(c) : c[i].kind \in DatabaseKinds <=> i <= n
            /\ \E i \in 1..n : c[i].kind = "create_database"
            /\ Len(c) = n + 2 + 2 * Len(model.tables)
            /\ c[n + 1].kind = "drop_schema"
            /\ c[n + 2].kind = "create_schema"
            /\ c[n + 1].target = c[n + 2].target
            /\ \A t \in 1..Len(model.tables) :
                  /\ c[n + 1 + 2 * t].kind = "drop_table"
                  /\ c[n + 2 + 2 * t].kind = "create_table"
                  /\ c[n + 1 + 2 * t].target = c[n + 2 + 2 * t].target

\* C14: the statements of every layer document are in that order, and no
\* CREATE of a schema or a table stands before a DROP of the same object in
\* the document.
C14_DropThenCreate ==
    /\ C14_PairsInOrder
    /\ \A k \in 1..Len(ddl) :
          LET c == ddl[k].value.commands
          IN  \A i, j \in 1..Len(c) :
                  ( /\ i < j
                    /\ c[i].kind \in { "create_schema", "create_table" }
                    /\ c[j].kind = DropOf(c[i].kind) )
                  => c[i].target # c[j].target

\* C15: in every layer document of the mssql dialect a GO line stands
\* between two statements and after the last; in every document of another
\* dialect the statements are joined by a semicolon and a newline, one
\* semicolon is appended, and there is no GO line.
C15_SeparatorFollowsDialect ==
    \A k \in 1..Len(ddl) :
        IF config.database = "mssql"
        THEN ddl[k].value.joiner = "\nGO\n" /\ ddl[k].value.terminator = "\nGO"
        ELSE ddl[k].value.joiner = ";\n" /\ ddl[k].value.terminator = ";"

\* C16: in every layer document the CREATE TABLE statements of two different
\* tables of the model name two different qualified objects, and so do their
\* DROP statements.
C16_DistinctTablesDistinctTargets ==
    \A k \in 1..Len(ddl) :
        LET creates == OfKind(ddl[k].value, "create_table")
            drops == OfKind(ddl[k].value, "drop_table")
        IN  /\ Len(creates) = Len(model.tables)
            /\ \A i, j \in 1..Len(creates) :
                  i # j => /\ creates[i].target # creates[j].target
                           /\ drops[i].target # drops[j].target

====
